---- MODULE Spec2Model ----
(***************************************************************************)
(* Model of telegram_gpt_bot.py: the per-user bounded conversation context *)
(* (user_context, ensure_context, push_user, push_assistant) and the       *)
(* message handlers that drive it (cmd_start, handle_photo,                *)
(* handle_document, handle_text, generate_pdf_report).                     *)
(*                                                                         *)
(* The bot is built with telebot.TeleBot(token, parse_mode="HTML"), i.e.   *)
(* with the library's default threaded dispatch: every handler runs on a   *)
(* worker thread of a pool, so handlers of different messages interleave.  *)
(* A handler is cut into steps at every access to shared state (the dict   *)
(* user_context, the deques in it) and at every blocking call.  Text is a  *)
(* sequence of one-character strings so that strip(), lower(), the `in`    *)
(* substring test and endswith() are computed, not assumed.                *)
(***************************************************************************)
EXTENDS Integers, Sequences, FiniteSets, TLC

\* ------------------------------------------------------------------ bounds
\* capacity of one history: deque(maxlen=24) in the source, scaled down
N == 2
\* number of inbound events delivered in one run
MaxEvents == 2
\* the user identifiers (m.from_user.id) that send events
Users == {1, 2}
\* worker threads that run handlers: TeleBot(...) is built with the library's
\* defaults, threaded dispatch on a pool of two threads
NumThreads == 2
Workers == 1..NumThreads
\* values int(time.time()) takes while a report is generated
Times == {1}

\* ------------------------------------------------------------ text helpers
Whitespace == {" ", "\n", "\t"}

\* str.lower(), one character
LowerChar(c) ==
    CASE c = "A'" -> "a'"
      [] c = "A." -> "a."
      [] c = "B" -> "b"
      [] c = "C" -> "c"
      [] c = "D" -> "d"
      [] c = "F" -> "f"
      [] c = "O" -> "o"
      [] c = "P" -> "p"
      [] c = "T" -> "t"
      [] OTHER -> c

\* str.lower()
Lower(s) == [i \in 1..Len(s) |-> LowerChar(s[i])]

RECURSIVE LStrip(_)
LStrip(s) == IF s # <<>> /\ Head(s) \in Whitespace THEN LStrip(Tail(s)) ELSE s

RECURSIVE RStrip(_)
RStrip(s) ==
    IF s # <<>> /\ s[Len(s)] \in Whitespace
    THEN RStrip(SubSeq(s, 1, Len(s) - 1))
    ELSE s

\* str.strip()
Strip(s) == RStrip(LStrip(s))

\* the Python test `sub in s`
Contains(s, sub) ==
    \E i \in 0..(Len(s) - Len(sub)) : SubSeq(s, i + 1, i + Len(sub)) = sub

RECURSIVE Split(_)
\* str.split(): the maximal runs of non-whitespace characters, in order
Split(s) ==
    LET t == LStrip(s)
        n == IF \E i \in 1..Len(t) : t[i] \in Whitespace
             THEN (CHOOSE i \in 1..Len(t) :
                       t[i] \in Whitespace /\ \A j \in 1..(i - 1) : t[j] \notin Whitespace) - 1
             ELSE Len(t)
    IN IF t = <<>> THEN <<>>
       ELSE <<SubSeq(t, 1, n)>> \o Split(SubSeq(t, n + 1, Len(t)))

RECURSIVE JoinWords(_)
\* " ".join(words)
JoinWords(words) ==
    IF words = <<>> THEN <<>>
    ELSE IF Len(words) = 1 THEN words[1]
    ELSE words[1] \o <<" ">> \o JoinWords(Tail(words))

\* str.endswith()
EndsWith(s, suf) ==
    Len(s) >= Len(suf) /\ SubSeq(s, Len(s) - Len(suf) + 1, Len(s)) = suf

\* f"{uid}" / f"{int(time.time())}" for the small integers of the model
Digits == <<"0", "1", "2", "3", "4", "5", "6", "7", "8", "9">>
Str(n) == <<Digits[n + 1]>>

\* ------------------------------------------------------- program constants
\* a' stands for a-acute, a. for a-dot-below
SYSTEM_PROMPT == <<"SYSTEM_PROMPT">>
MarkerLong == <<"t", "a.", "o", " ", "b", "a'", "o", " ", "c", "a'", "o">>
MarkerShort == <<"b", "a'", "o", " ", "c", "a'", "o">>
MEDIA_DIR == <<"MEDIA_DIR">>
StartReply == <<"Chao, toi la tro ly giam dinh. Gui anh/bien ban de toi phan tich.">>
PhotoReply == <<"Anh da luu. Mo ta them hoan canh de toi phan tich.">>
PdfReply == <<"Bat dau trich xuat noi dung PDF (neu cau hinh).">>
ErrorReply == <<"Loi khi ket noi OpenAI.">>
ReportPrefix == <<"Bao cao da tao: ">>
CasePrefix == <<"Tao vu viec #">>
CaseLocalPrefix == <<"Tao vu viec (local) - ">>
CaseTitlePrefix == <<"Vu ">>
DocReply(fname) == <<"Tai lieu ">> \o fname \o <<" da luu.">>

\* ------------------------------------------------------------ input domains
\* inbound texts (m.text): one that holds the marker in upper case between
\* blanks, one that does not hold it
TextReport == <<" ", "B", "A'", "O", " ", "C", "A'", "O", " ">>
TextPlain == <<"h", "i">>
Texts == {TextReport, TextPlain}
\* content the Inference Service returns (resp["choices"][0]["message"]["content"])
Replies == {<<" ", "o", "k", "\n">>}
\* file ids and file names of inbound media
FileIds == {<<"f">>}
FileNames == {<<"r", ".", "P", "D", "F">>, <<"n", ".", "t", "x", "t">>}
\* /newcase commands (m.text): one with a two-word title, one without a title
CaseCommands == {<<"/newcase", " ", " ", "x", " ", "y">>, <<"/newcase">>}

\* --------------------------------------------------------------- the state
VARIABLES
    user_context,   \* the dict: DOMAIN = the keys, value = the deque's items
    th,             \* per worker thread: the handler it runs and its locals
    log,            \* history variable: per user, every append in order
    files,          \* the files written under MEDIA_DIR
    SessionLocal,   \* whether a Case Store is configured (DATABASE_URL)
    cases,          \* the rows of table "cases", in order of insertion
    nEvents         \* inbound events delivered so far

vars == <<user_context, th, log, files, SessionLocal, cases, nEvents>>

Turn(role, content) == [role |-> role, content |-> content]

Idle ==
    [pc |-> "idle", kind |-> "none", uid |-> 0, mid |-> 0, text |-> <<>>,
     op |-> "none", content |-> <<>>, messages |-> <<>>,
     assistant_text |-> <<>>, path |-> <<>>, replies |-> <<>>,
     pushed |-> <<>>, calls |-> 0, renders |-> 0, outcome |-> "none"]

Init ==
    /\ user_context = <<>>
    /\ th = [w \in Workers |-> Idle]
    /\ log = [u \in Users |-> <<>>]
    /\ files = {}
    /\ SessionLocal \in BOOLEAN
    /\ cases = <<>>
    /\ nEvents = 0

\* ------------------------------------------------------ the context buffer
\* mutant: a deque without maxlen
DequeAppendUnbounded(d, x) == Append(d, x)

\* mutant: a full deque refuses the new item instead of dropping the oldest
DequeAppendDropNewest(d, x) == IF Len(d) >= N THEN d ELSE Append(d, x)

\* deque(maxlen=N).append(x): a full deque drops its leftmost item
DequeAppend(d, x) == IF Len(d) >= N THEN Append(Tail(d), x) ELSE Append(d, x)

\* mutant: the assignment replaces the value under every key
DictSetShared(d, k, v) == [x \in (DOMAIN d) \cup {k} |-> v]

\* user_context[uid] = value (dict item assignment)
DictSet(d, k, v) == [x \in (DOMAIN d) \cup {k} |-> IF x = k THEN v ELSE d[x]]

\* ensure_context, line 82, when uid is not a key: line 83 is next.  (When
\* uid is a key the test has no effect and keys are never removed, so its
\* outcome cannot change before the caller's next step: that case is part of
\* the caller's next step, see Ensured.)
EnsureCheck(w) ==
    /\ th[w].pc = "ensure"
    /\ th[w].uid \notin DOMAIN user_context
    /\ th' = [th EXCEPT ![w].pc = "create"]
    /\ UNCHANGED <<user_context, log, files, SessionLocal, cases, nEvents>>

\* ensure_context, line 83: a new empty deque is stored under uid
EnsureCreate(w) ==
    /\ th[w].pc = "create"
    /\ user_context' = DictSet(user_context, th[w].uid, <<>>)
    /\ th' = [th EXCEPT ![w].pc = "ensured"]
    /\ UNCHANGED <<log, files, SessionLocal, cases, nEvents>>

\* ensure_context has returned, or is entered and finds the key at line 82
Ensured(w) ==
    \/ th[w].pc = "ensured"
    \/ th[w].pc = "ensure" /\ th[w].uid \in DOMAIN user_context

\* mutant: push_assistant is run a second time before the reply is routed
AfterAppendTwice(t) ==
    IF t.op = "asst" THEN (IF Len(t.pushed) < 2 THEN "ensured" ELSE "route")
    ELSE IF t.kind = "text" THEN "build"
    ELSE "done"

\* where a handler continues once push_user / push_assistant has returned
AfterAppend(t) ==
    IF t.op = "asst" THEN "route"
    ELSE IF t.kind = "text" THEN "build"
    ELSE "done"

\* push_user line 87 / push_assistant line 91: user_context[uid].append(turn).
\* The lookup user_context[uid] and the append to the deque it yields are one
\* step: an append to a deque that another thread replaces between the two
\* is never seen again, which is the outcome of the append coming first.
PushAppend(w) ==
    /\ Ensured(w)
    /\ th[w].op \in {"user", "asst"}
    /\ LET t == th[w]
           turn == Turn(IF t.op = "asst" THEN "assistant" ELSE "user", t.content)
       IN /\ user_context' =
                 [user_context EXCEPT ![t.uid] = DequeAppend(@, turn)]
          /\ log' = [log EXCEPT ![t.uid] =
                        Append(@, [role |-> turn.role, content |-> turn.content,
                                   mid |-> t.mid])]
          /\ th' = [th EXCEPT ![w].pc = AfterAppend(t),
                              ![w].pushed = Append(@, turn),
                              ![w].outcome =
                                  IF AfterAppend(t) = "done" THEN "recorded" ELSE @]
    /\ UNCHANGED <<files, SessionLocal, cases, nEvents>>

\* ---------------------------------------------------------------- dispatch
Free(w) == th[w].pc \in {"idle", "done"}

Running(w) == ~Free(w)

\* the pool hands an event to a free worker; its workers are interchangeable,
\* so the event goes to the free worker of lowest index.  User identifiers
\* are interchangeable too (no handler compares or orders them), so the
\* sender of the first event is taken to be the user of lowest identifier.
Begin(w, kind, uid, text, pc, op, content) ==
    /\ Free(w)
    /\ \A v \in Workers : Free(v) => w <= v
    /\ nEvents < MaxEvents
    /\ nEvents = 0 => \A u \in Users : uid <= u
    /\ nEvents' = nEvents + 1
    /\ th' = [th EXCEPT ![w] =
                 [Idle EXCEPT !.pc = pc, !.kind = kind, !.uid = uid,
                              !.mid = nEvents + 1, !.text = text, !.op = op,
                              !.content = content]]
    /\ UNCHANGED <<user_context, log, files, SessionLocal, cases>>

\* cmd_start, line 100: ensure_context(m.from_user.id)
DispatchStart(w) ==
    \E uid \in Users : Begin(w, "start", uid, <<>>, "ensure", "start", <<>>)

\* cmd_start, line 101
ReplyStart(w) ==
    /\ Ensured(w)
    /\ th[w].op = "start"
    /\ th' = [th EXCEPT ![w].pc = "done",
                        ![w].replies = Append(@, StartReply),
                        ![w].outcome = "started"]
    /\ UNCHANGED <<user_context, log, files, SessionLocal, cases, nEvents>>

\* ----------------------------------------------------------------- /newcase
\* cmd_newcase, lines 107-108: the title of the case
CaseTitle(text, now) ==
    LET words == Split(text)
        given == IF Len(words) > 1 THEN JoinWords(Tail(words)) ELSE <<>>
    IN IF given # <<>> THEN given ELSE CaseTitlePrefix \o Str(now)

DispatchNewcase(w) ==
    \E uid \in Users, raw \in CaseCommands :
        Begin(w, "newcase", uid, raw, "newcase", "none", <<>>)

\* cmd_newcase, lines 106-117: with a Case Store the case is inserted and the
\* reply names its id, without one the reply names the title alone
NewCase(w) ==
    /\ th[w].pc = "newcase"
    /\ \E now \in Times :
         LET t == th[w]
             title == CaseTitle(t.text, now)
             id == Len(cases) + 1
         IN /\ cases' = IF SessionLocal
                        THEN Append(cases, [id |-> id, tg_user |-> Str(t.uid),
                                            title |-> title])
                        ELSE cases
            /\ th' = [th EXCEPT
                  ![w].pc = "done",
                  ![w].content = title,
                  ![w].replies =
                      IF SessionLocal
                      THEN <<CasePrefix \o Str(id) \o <<" - ">> \o title>>
                      ELSE <<CaseLocalPrefix \o title>>,
                  ![w].outcome = "case"]
    /\ UNCHANGED <<user_context, log, files, SessionLocal, nEvents>>

\* os.path.join(MEDIA_DIR, name)
Join(dir, name) == dir \o <<"/">> \o name

\* ------------------------------------------------------------ media events
\* handle_photo, line 126: the local path of the saved photo
PhotoPath(uid, file_id) ==
    Join(MEDIA_DIR, Str(uid) \o <<"_">> \o file_id \o <<".jpg">>)

\* handle_document, line 139: the local path of the saved document
DocPath(uid, file_id, fname) ==
    Join(MEDIA_DIR, Str(uid) \o <<"_">> \o file_id \o <<"_">> \o fname)

\* mutant: the extension is compared without fname.lower()
IsPdfCaseSensitive(fname) == EndsWith(fname, <<".", "p", "d", "f">>)

\* handle_document, line 143
IsPdf(fname) == EndsWith(Lower(fname), <<".", "p", "d", "f">>)

\* open(path, "w") / download_file(src, path): the file at path is replaced
WriteFile(fs, path, body) ==
    {f \in fs : f.path # path} \cup {[path |-> path, body |-> body]}

DispatchPhoto(w) ==
    \E uid \in Users, fid \in FileIds :
        Begin(w, "photo", uid, fid, "download", "user", <<>>)

DispatchDocument(w) ==
    \E uid \in Users, fid \in FileIds, fname \in FileNames :
        Begin(w, "document", uid, fid, "download", "user", fname)

\* handle_photo lines 123-128, handle_document lines 137-144: the bytes are
\* fetched and stored, then the replies are sent; what is left is push_user
Download(w) ==
    /\ th[w].pc = "download"
    /\ LET t == th[w]
           local == IF t.kind = "photo"
                    THEN PhotoPath(t.uid, t.text)
                    ELSE DocPath(t.uid, t.text, t.content)
       IN /\ files' = WriteFile(files, local, <<"bytes">>)
          /\ th' = [th EXCEPT
                ![w].path = local,
                ![w].replies =
                    IF t.kind = "photo" THEN <<PhotoReply>>
                    ELSE IF IsPdf(t.content)
                         THEN <<DocReply(t.content), PdfReply>>
                         ELSE <<DocReply(t.content)>>,
                ![w].content =
                    IF t.kind = "photo"
                    THEN <<"[image:">> \o local \o <<"]">>
                    ELSE <<"[pdf:">> \o local \o <<"]">>,
                ![w].pc =
                    IF t.kind = "photo" \/ IsPdf(t.content)
                    THEN "ensure" ELSE "done",
                ![w].outcome =
                    IF t.kind = "photo" \/ IsPdf(t.content)
                    THEN @ ELSE "saved"]
    /\ UNCHANGED <<user_context, log, SessionLocal, cases, nEvents>>

\* bot.get_file / bot.download_file raise: the handler ends there
DownloadFail(w) ==
    /\ th[w].pc = "download"
    /\ th' = [th EXCEPT ![w].pc = "done", ![w].outcome = "raised"]
    /\ UNCHANGED <<user_context, log, files, SessionLocal, cases, nEvents>>

\* -------------------------------------------------------------- handle_text
\* lines 151-153: text = m.text.strip(); push_user(uid, text)
DispatchText(w) ==
    \E uid \in Users, raw \in Texts :
        Begin(w, "text", uid, Strip(raw), "ensure", "user", Strip(raw))

\* line 154: the payload of the inference request
Payload(history) == <<Turn("system", SYSTEM_PROMPT)>> \o history

\* lines 154-156: the payload is built from the deque and the request is sent
BuildAndCall(w) ==
    /\ th[w].pc = "build"
    /\ th' = [th EXCEPT ![w].pc = "infer",
                        ![w].messages = Payload(user_context[th[w].uid]),
                        ![w].calls = @ + 1]
    /\ UNCHANGED <<user_context, log, files, SessionLocal, cases, nEvents>>

\* lines 156-157 and 162: the service answers; push_assistant is entered
InferOk(w) ==
    /\ th[w].pc = "infer"
    /\ \E r \in Replies :
           th' = [th EXCEPT ![w].pc = "ensure", ![w].op = "asst",
                            ![w].assistant_text = Strip(r),
                            ![w].content = Strip(r)]
    /\ UNCHANGED <<user_context, log, files, SessionLocal, cases, nEvents>>

\* mutant: the except branch records an empty assistant Turn
InferFailPhantom(w) ==
    /\ th[w].pc = "infer"
    /\ th[w].uid \in DOMAIN user_context
    /\ user_context' = [user_context EXCEPT ![th[w].uid] =
                            DequeAppend(@, Turn("assistant", <<>>))]
    /\ th' = [th EXCEPT ![w].pc = "done",
                        ![w].replies = Append(@, ErrorReply),
                        ![w].outcome = "error"]
    /\ UNCHANGED <<log, files, SessionLocal, cases, nEvents>>

\* mutant: the except branch sends the request once more before giving up
InferFailRetry(w) ==
    /\ th[w].pc = "infer"
    /\ th' = IF th[w].calls < 2
             THEN [th EXCEPT ![w].pc = "build"]
             ELSE [th EXCEPT ![w].pc = "done",
                             ![w].replies = Append(@, ErrorReply),
                             ![w].outcome = "error"]
    /\ UNCHANGED <<user_context, log, files, SessionLocal, cases, nEvents>>

\* lines 158-161: the call raises
InferFail(w) ==
    /\ th[w].pc = "infer"
    /\ th' = [th EXCEPT ![w].pc = "done",
                        ![w].replies = Append(@, ErrorReply),
                        ![w].outcome = "error"]
    /\ UNCHANGED <<user_context, log, files, SessionLocal, cases, nEvents>>

\* mutant: the marker is looked for in the text as typed, not in text.lower()
WantsReportCaseSensitive(text) ==
    Contains(text, MarkerLong) \/ Contains(text, MarkerShort)

\* line 164
WantsReport(text) ==
    Contains(Lower(text), MarkerLong) \/ Contains(Lower(text), MarkerShort)

\* line 172
ReportPath(uid, now) ==
    Join(MEDIA_DIR, <<"report_">> \o Str(uid) \o <<"_">> \o Str(now) \o <<".pdf">>)

\* mutant: the fallback is written but the document path is returned
generate_pdf_report_same_path(uid, query_text, assistant_text, now, rendered) ==
    [path |-> ReportPath(uid, now),
     body |-> <<IF rendered THEN "pdf" ELSE "txt", Str(uid), query_text,
                assistant_text>>]

\* generate_pdf_report: the returned path and the file written, given the
\* clock and whether the ReportLab block (lines 174-190) ran through
generate_pdf_report(uid, query_text, assistant_text, now, rendered) ==
    LET pdf_path == ReportPath(uid, now)
    IN IF rendered
       THEN [path |-> pdf_path,
             body |-> <<"pdf", Str(uid), query_text, assistant_text>>]
       ELSE [path |-> pdf_path \o <<".txt">>,
             body |-> <<"txt", Str(uid), query_text, assistant_text>>]

\* lines 167-168
ReplyDirect(w) ==
    /\ th[w].pc = "route"
    /\ ~WantsReport(th[w].text)
    /\ th' = [th EXCEPT ![w].pc = "done",
                        ![w].replies = Append(@, th[w].assistant_text),
                        ![w].outcome = "reply"]
    /\ UNCHANGED <<user_context, log, files, SessionLocal, cases, nEvents>>

\* lines 164-166
Report(w, rendered) ==
    /\ th[w].pc = "route"
    /\ WantsReport(th[w].text)
    /\ \E now \in Times :
         LET t == th[w]
             r == generate_pdf_report(t.uid, t.text, t.assistant_text, now, rendered)
         IN /\ files' = WriteFile(files, r.path, r.body)
            /\ th' = [th EXCEPT ![w].pc = "done",
                                ![w].path = r.path,
                                ![w].renders = @ + 1,
                                ![w].replies = Append(@, ReportPrefix \o r.path),
                                ![w].outcome =
                                    IF rendered THEN "report" ELSE "fallback"]
    /\ UNCHANGED <<user_context, log, SessionLocal, cases, nEvents>>

ReportRendered(w) == Report(w, TRUE)

ReportFallback(w) == Report(w, FALSE)

\* ------------------------------------------------------------ specification
\* one step of the handler running on worker w
Step(w) ==
    \/ EnsureCheck(w)
    \/ EnsureCreate(w)
    \/ PushAppend(w)
    \/ ReplyStart(w)
    \/ NewCase(w)
    \/ Download(w)
    \/ DownloadFail(w)
    \/ BuildAndCall(w)
    \/ InferOk(w)
    \/ InferFail(w)
    \/ ReplyDirect(w)
    \/ ReportRendered(w)
    \/ ReportFallback(w)

\* an inbound event is handed to a free worker
Dispatch(w) ==
    \/ DispatchStart(w)
    \/ DispatchNewcase(w)
    \/ DispatchPhoto(w)
    \/ DispatchDocument(w)
    \/ DispatchText(w)

\* threaded dispatch: handlers of different messages interleave
Next == \E w \in Workers : Dispatch(w) \/ Step(w)

Spec == Init /\ [][Next]_vars

\* one event at a time: an event is dispatched only when no handler runs
Quiet == \A w \in Workers : Free(w)

NextSeq == \E w \in Workers : (Quiet /\ Dispatch(w)) \/ Step(w)

SpecSeq == Init /\ [][NextSeq]_vars

\* one event per user at a time: an event of a user is dispatched only when
\* no handler runs for that user; handlers of different users interleave
QuietFor(uid) == \A w \in Workers : Running(w) => th[w].uid # uid

NextPerUser ==
    \E w \in Workers : (Dispatch(w) /\ QuietFor(th'[w].uid)) \/ Step(w)

SpecPerUser == Init /\ [][NextPerUser]_vars

\* ------------------------------------------------------------- properties
Min(a, b) == IF a <= b THEN a ELSE b

\* the Turns of user u's history, <<>> while u has none
History(u) == IF u \in DOMAIN user_context THEN user_context[u] ELSE <<>>

\* the Turns of a log, in order, without the message ids
Turns(l) == [i \in 1..Len(l) |-> Turn(l[i].role, l[i].content)]

\* the last n items of s
LastN(s, n) == SubSeq(s, Len(s) - Min(Len(s), n) + 1, Len(s))


\* C1: in every reachable state, under every interleaving of /start, text,
\* photo and document events of any users, no history is longer than N.
C1_LengthBound ==
    \A u \in DOMAIN user_context : Len(user_context[u]) <= N

\* an append has happened to a history that was full
C1_Witness ==
    \E u \in DOMAIN user_context :
        Len(log[u]) > N /\ Len(user_context[u]) = N

\* C2: with one event handled at a time, a user's history is the last
\* min(k, N) of the k Turns recorded for that user, in their order; after N+1
\* records it has N Turns and only the first recorded Turn is missing.
C2_Fifo ==
    \A u \in Users :
        /\ History(u) = LastN(Turns(log[u]), N)
        /\ Len(log[u]) = N + 1 =>
               Len(History(u)) = N /\ History(u) = Tail(Turns(log[u]))

\* N+1 Turns of both roles were recorded for one user: the first is gone
C2_Witness ==
    \E u \in DOMAIN user_context :
        /\ Len(log[u]) = N + 1
        /\ \E i \in 1..Len(log[u]) : log[u][i].role = "assistant"
        /\ log[u][1].role = "user"
        /\ user_context[u] = Tail(Turns(log[u]))

\* C3: a step taken for one user (a dispatch, ensure, an append, the
\* inference round trip, a report) leaves every other user's history as it
\* was, also while handlers of several users are under way.
C3_Frame ==
    [][\A w \in Workers :
          th'[w] # th[w] =>
              \A u \in Users \ {th'[w].uid} :
                  /\ (u \in DOMAIN user_context') = (u \in DOMAIN user_context)
                  /\ History(u)' = History(u)
                  /\ log'[u] = log[u]]_vars

\* handlers of two users are under way together and both have appended
C3_Witness ==
    \E w1, w2 \in Workers :
        /\ th[w1].uid # th[w2].uid
        /\ Running(w1) /\ Running(w2)
        /\ th[w1].pushed # <<>> /\ th[w2].pushed # <<>>

C5_Payload ==
    [][\A w \in Workers :
          (th[w].pc = "build" /\ th'[w].pc = "infer") =>
              LET m == th'[w].messages
                  h == user_context[th[w].uid]
              IN /\ Len(m) = Len(h) + 1
                 /\ m[1].role = "system"
                 /\ \A i \in 2..Len(m) : m[i].role # "system" /\ m[i] = h[i - 1]
                 /\ \E i \in 2..Len(m) : m[i] = Turn("user", th[w].text)]_vars

\* C6: for one user, assistant Turns are appended in the order in which
\* their requests were recorded: if the user Turn of message A is appended
\* before the user Turn of message B, the assistant Turn answering A is
\* appended before the one answering B, under every interleaving.
C6_ReplyOrder ==
    \A u \in Users :
        \A i, j, k, l \in 1..Len(log[u]) :
            (/\ log[u][i].role = "user" /\ log[u][j].role = "user"
             /\ i < j
             /\ log[u][k].role = "assistant" /\ log[u][k].mid = log[u][i].mid
             /\ log[u][l].role = "assistant" /\ log[u][l].mid = log[u][j].mid)
            => k < l

\* C7: under every interleaving of the ensure and append steps of handlers of
\* one user, every Turn whose append completed is in that user's history
\* unless at least N Turns were appended after it.
C7_NoLostTurn ==
    \A u \in Users :
        \A i \in 1..Len(log[u]) :
            Len(log[u]) - i < N =>
                \E j \in 1..Len(History(u)) :
                    History(u)[j] = Turn(log[u][i].role, log[u][i].content)

\* the two inbound texts of the model as handle_text sees them: the first
\* holds the marker phrase in upper case, the second does not hold it
MarkedText == <<"B", "A'", "O", " ", "C", "A'", "O">>
UnmarkedText == <<"h", "i">>

\* C8: a text whose inference call succeeded and that holds the marker
\* (in any case) gets the report path as its reply, from one run of the
\* renderer, and never the raw assistant text; a text without the marker gets
\* the raw assistant text and the renderer is not run.  The user Turn is
\* appended before the inference call, the assistant Turn before the routing.
C8_ReportRouting ==
    \A w \in Workers :
        LET t == th[w]
            user == Turn("user", t.text)
            asst == Turn("assistant", t.assistant_text)
        IN t.kind = "text" =>
            /\ t.text \in {MarkedText, UnmarkedText}
            /\ t.pc = "infer" => t.pushed = <<user>>
            /\ t.pc = "route" =>
                   t.pushed = <<user, asst>> /\ t.replies = <<>> /\ t.renders = 0
            /\ (t.pc = "done" /\ t.outcome # "error") =>
                   /\ t.pushed = <<user, asst>>
                   /\ t.calls = 1
                   /\ t.text = MarkedText =>
                          /\ t.renders = 1
                          /\ t.replies = <<ReportPrefix \o t.path>>
                          /\ t.replies[1] # t.assistant_text
                          /\ \E f \in files : f.path = t.path
                   /\ t.text = UnmarkedText =>
                          /\ t.renders = 0
                          /\ t.replies = <<t.assistant_text>>
                          /\ t.path = <<>>

\* one text with the marker was answered with a report and one text without
\* it with the assistant's text
C8_Witness ==
    \E w1, w2 \in Workers :
        /\ th[w1].pc = "done" /\ th[w1].text = MarkedText
        /\ th[w1].outcome \in {"report", "fallback"}
        /\ th[w2].pc = "done" /\ th[w2].text = UnmarkedText
        /\ th[w2].outcome = "reply"
        /\ th[w2].replies = <<<<"o", "k">>>>

\* C9: the rendering step leaves every history as it is and ends with one
\* reply that names the returned path, never the error message; when the
\* document cannot be rendered the plain-text fallback is written and the
\* returned path is the document path plus ".txt", otherwise the returned
\* path is the document path.
C9_RendererFallback ==
    [][\A w \in Workers :
          (th[w].pc = "route" /\ th'[w].pc = "done"
           /\ th'[w].outcome \in {"report", "fallback"}) =>
              LET t == th'[w]
                  doc == <<"MEDIA_DIR", "/", "report_">> \o Str(t.uid)
                             \o <<"_">> \o Str(1) \o <<".pdf">>
              IN /\ user_context' = user_context
                 /\ log' = log
                 /\ t.replies = <<ReportPrefix \o t.path>>
                 /\ t.replies[1] # ErrorReply
                 /\ t.outcome = "report" =>
                        /\ t.path = doc
                        /\ [path |-> doc,
                            body |-> <<"pdf", Str(t.uid), t.text, t.assistant_text>>]
                               \in files'
                 /\ t.outcome = "fallback" =>
                        /\ t.path = doc \o <<".txt">>
                        /\ [path |-> doc \o <<".txt">>,
                            body |-> <<"txt", Str(t.uid), t.text, t.assistant_text>>]
                               \in files'
                        /\ \A f \in files' \ files : f.path # doc]_vars

\* the renderer failed and the handler replied with the ".txt" path
C9_Witness ==
    \E w \in Workers :
        /\ th[w].pc = "done" /\ th[w].outcome = "fallback"
        /\ EndsWith(th[w].path, <<".pdf", ".txt">>)
        /\ th[w].replies = <<ReportPrefix \o th[w].path>>
        /\ \E f \in files : f.path = th[w].path /\ f.body[1] = "txt"

\* C10: ensure never alters an existing history: a step of ensure_context,
\* and every step of the /start handler, leaves each existing history with
\* the same Turns in the same order, and a history it creates is empty.
C10_EnsureIdempotent ==
    [][\A w \in Workers :
          (/\ th'[w] # th[w]
           /\ \/ th[w].pc = "create"
              \/ th[w].pc = "ensure" /\ th'[w].pc = "create"
              \/ Running(w) /\ th[w].kind = "start") =>
              /\ \A u \in DOMAIN user_context :
                     u \in DOMAIN user_context'
                     /\ user_context'[u] = user_context[u]
              /\ \A u \in (DOMAIN user_context') \ (DOMAIN user_context) :
                     user_context'[u] = <<>>]_vars

\* the two document names of the model: a PDF named in upper case, and a
\* document that is no PDF
PdfName == <<"r", ".", "P", "D", "F">>
OtherName == <<"n", ".", "t", "x", "t">>

\* the placeholder Turn of a stored photo / a stored document
ImageTurn(path) == Turn("user", <<"[image:">> \o path \o <<"]">>)
PdfTurn(path) == Turn("user", <<"[pdf:">> \o path \o <<"]">>)

\* what holds of every media handler: no inference call, no Turn when the
\* bytes could not be stored, and a Turn only once the file is stored
MediaCommon(t) ==
    /\ t.calls = 0 /\ t.messages = <<>> /\ t.renders = 0
    /\ t.outcome = "raised" => t.pushed = <<>> /\ t.replies = <<>>
    /\ t.pushed # <<>> =>
           \E f \in files : f.path = t.path /\ f.body = <<"bytes">>
    /\ \A i \in 1..Len(log[t.uid]) :
           log[t.uid][i].mid = t.mid => log[t.uid][i].role = "user"

\* C11 as stated: every media event whose bytes were stored is recorded as
\* exactly one placeholder user Turn, "[image:<path>]" for a photo and
\* "[pdf:<path>]" for a document, appended after the bytes are stored; no
\* Turn when storing fails; no inference call.
C11_MediaRecorded ==
    \A w \in Workers :
        LET t == th[w]
        IN t.kind \in {"photo", "document"} =>
            /\ MediaCommon(t)
            /\ (t.pc = "done" /\ t.outcome # "raised") =>
                   t.pushed = <<IF t.kind = "photo" THEN ImageTurn(t.path)
                                ELSE PdfTurn(t.path)>>

\* C11 amended: a photo, and a document whose file name ends in ".pdf" in
\* any case, is recorded as exactly one placeholder user Turn after its
\* bytes are stored; a document with another name is stored and
\* acknowledged and no Turn is appended for it.
C11_MediaRecordedPdf ==
    \A w \in Workers :
        LET t == th[w]
        IN t.kind \in {"photo", "document"} =>
            /\ MediaCommon(t)
            /\ (t.pc = "done" /\ t.outcome # "raised") =>
                   /\ t.kind = "photo" =>
                          /\ t.path = <<"MEDIA_DIR", "/">> \o Str(t.uid)
                                          \o <<"_", "f", ".jpg">>
                          /\ t.pushed = <<ImageTurn(t.path)>>
                   /\ (t.kind = "document" /\ EndsWith(t.path, PdfName)) =>
                          /\ t.pushed = <<PdfTurn(t.path)>>
                          /\ t.replies = <<DocReply(PdfName), PdfReply>>
                   /\ (t.kind = "document" /\ EndsWith(t.path, OtherName)) =>
                          /\ t.pushed = <<>>
                          /\ t.replies = <<DocReply(OtherName)>>
                          /\ \E f \in files : f.path = t.path

\* a PDF named in upper case was recorded and a document that is no PDF was
\* stored without a Turn
C11_Witness ==
    \E w1, w2 \in Workers :
        /\ th[w1].kind = "document" /\ th[w1].pc = "done"
        /\ EndsWith(th[w1].path, PdfName)
        /\ th[w1].pushed = <<PdfTurn(th[w1].path)>>
        /\ th[w2].kind = "document" /\ th[w2].pc = "done"
        /\ EndsWith(th[w2].path, OtherName)
        /\ th[w2].outcome = "saved" /\ th[w2].pushed = <<>>

\* the number of appends of the given role made for message mid of user u
Appends(u, mid, role) ==
    Cardinality({i \in 1..Len(log[u]) :
                     log[u][i].mid = mid /\ log[u][i].role = role})

\* C12: a text message causes exactly one recordUser, at most one inference
\* call, at most one recordAssistant and exactly one reply, which is the
\* fixed error message (the call failed), the report path (the marker
\* matched) or the assistant text, and only one of them.
C12_OneOutcome ==
    \A w \in Workers :
        LET t == th[w]
        IN t.kind = "text" =>
            /\ Appends(t.uid, t.mid, "user") <= 1
            /\ Appends(t.uid, t.mid, "assistant") <= 1
            /\ t.calls <= 1
            /\ Len(t.replies) <= 1
            /\ t.renders <= 1
            /\ t.pc = "done" =>
                   /\ Appends(t.uid, t.mid, "user") = 1
                   /\ t.calls = 1
                   /\ Len(t.replies) = 1
                   /\ t.outcome \in {"error", "report", "fallback", "reply"}
                   /\ t.outcome = "error" =>
                          /\ t.replies = <<ErrorReply>>
                          /\ Appends(t.uid, t.mid, "assistant") = 0
                          /\ t.renders = 0
                   /\ t.outcome \in {"report", "fallback"} =>
                          /\ t.replies = <<ReportPrefix \o t.path>>
                          /\ Appends(t.uid, t.mid, "assistant") = 1
                          /\ t.renders = 1
                   /\ t.outcome = "reply" =>
                          /\ t.replies = <<t.assistant_text>>
                          /\ Appends(t.uid, t.mid, "assistant") = 1
                          /\ t.renders = 0

\* one text ended with the error message and one with a report
C12_Witness ==
    \E w1, w2 \in Workers :
        /\ th[w1].kind = "text" /\ th[w1].pc = "done"
        /\ th[w1].outcome = "error" /\ th[w1].calls = 1
        /\ th[w2].kind = "text" /\ th[w2].pc = "done"
        /\ th[w2].outcome = "report" /\ th[w2].calls = 1

\* C13: while the inference call of a message of user u1 has not returned,
\* a handler running for another user can take its next step, and a text
\* message of u1 that came later is neither recorded nor answered.
C13_HungCall ==
    \A w1, w2 \in Workers :
        th[w1].pc = "infer" =>
            /\ (Running(w2) /\ th[w2].uid # th[w1].uid) => ENABLED Step(w2)
            /\ (/\ th[w2].kind = "text"
                /\ th[w2].uid = th[w1].uid
                /\ th[w2].mid > th[w1].mid) =>
                   /\ th[w2].pushed = <<>>
                   /\ th[w2].replies = <<>>
                   /\ Appends(th[w2].uid, th[w2].mid, "user") = 0

\* the contents of the Turns of history h that have the given role, in order
ContentsOf(h, role) ==
    LET idx == {i \in 1..Len(h) : h[i].role = role}
        RECURSIVE Collect(_)
        Collect(i) == IF i > Len(h) THEN <<>>
                      ELSE IF i \in idx THEN <<h[i].content>> \o Collect(i + 1)
                      ELSE Collect(i + 1)
    IN Collect(1)

\* C14: when a report is produced, the query and analysis blocks of the file
\* written are the latest user Turn and the latest assistant Turn of that
\* user's history at that moment, which are the text of this message and
\* the reply to it, also while another message of the user is handled.
C14_ReportBlocks ==
    [][\A w \in Workers :
          (th[w].pc = "route" /\ th'[w].pc = "done"
           /\ th'[w].outcome \in {"report", "fallback"}) =>
              LET t == th[w]
                  users == ContentsOf(History(t.uid), "user")
                  assts == ContentsOf(History(t.uid), "assistant")
              IN \E f \in files' :
                     /\ f.path = th'[w].path
                     /\ f.body[3] = t.text
                     /\ f.body[4] = t.assistant_text
                     /\ users # <<>> /\ f.body[3] = users[Len(users)]
                     /\ assts # <<>> /\ f.body[4] = assts[Len(assts)]]_vars

\* C15: /start and /newcase never change the content of a history: a step
\* of the /start handler leaves every existing history as it is and only
\* creates empty ones; a step of the /newcase handler leaves the whole store
\* unchanged, with or without a Case Store, and the handler ends having
\* made no inference call and sent exactly one reply.
C15_CommandsFrame ==
    [][\A w \in Workers :
          (th'[w] # th[w] /\ Running(w)) =>
              /\ th[w].kind = "start" =>
                     /\ \A u \in DOMAIN user_context :
                            u \in DOMAIN user_context'
                            /\ user_context'[u] = user_context[u]
                     /\ \A u \in (DOMAIN user_context') \ (DOMAIN user_context) :
                            user_context'[u] = <<>>
              /\ th[w].kind = "newcase" =>
                     /\ user_context' = user_context
                     /\ log' = log
                     /\ th'[w].pc = "done"
                     /\ th'[w].calls = 0
                     /\ Len(th'[w].replies) = 1]_vars

\* C16: when each user's events are handled one at a time to completion,
\* every assistant Turn is appended immediately after the user Turn of the
\* same request; hence no history holds two adjacent assistant Turns, and
\* a history begins with an assistant Turn only after an eviction.
C16_Alternation ==
    \A u \in Users :
        /\ \A i \in 1..Len(log[u]) :
               log[u][i].role = "assistant" =>
                   /\ i > 1
                   /\ log[u][i - 1].role = "user"
                   /\ log[u][i - 1].mid = log[u][i].mid
        /\ \A i \in 1..(Len(History(u)) - 1) :
               ~(History(u)[i].role = "assistant"
                 /\ History(u)[i + 1].role = "assistant")
        /\ (History(u) # <<>> /\ History(u)[1].role = "assistant") =>
               /\ Len(log[u]) > N
               /\ Len(History(u)) = N

\* a history that begins with an assistant Turn, its user Turn evicted, and
\* goes on with the user Turn of the next request
C16_Witness ==
    \E u \in Users :
        /\ Len(log[u]) > N
        /\ Len(History(u)) >= 2
        /\ History(u)[1].role = "assistant"
        /\ History(u)[2].role = "user"

\* the texts handle_text can record as a user Turn
TextContents == {Strip(raw) : raw \in Texts}

\* entry i of log l is the user Turn of a text message whose inference call
\* failed: its handler (workers t) has ended without recording a reply
FailedAt(l, t, i) ==
    /\ l[i].role = "user"
    /\ l[i].content \in TextContents
    /\ \A j \in 1..Len(l) : ~(l[j].role = "assistant" /\ l[j].mid = l[i].mid)
    /\ \A w \in Workers : t[w].pc \in {"idle", "done"} \/ t[w].mid # l[i].mid

\* C17: the user Turn of a message whose inference call failed is not rolled
\* back: while fewer than N Turns have been recorded after it, it is in the
\* history, and the payload of a later text message of that user holds it,
\* not followed by an assistant Turn.
C17_FailedTurnKept ==
    [][/\ \A u \in Users : \A i \in 1..Len(log'[u]) :
              (FailedAt(log'[u], th', i) /\ Len(log'[u]) - i < N) =>
                  /\ u \in DOMAIN user_context'
                  /\ LET h == user_context'[u]
                         k == Len(h) - (Len(log'[u]) - i)
                     IN /\ k >= 1
                        /\ h[k] = Turn("user", log'[u][i].content)
       /\ \A w \in Workers :
              (th[w].pc = "build" /\ th'[w].pc = "infer") =>
                  LET l == log[th[w].uid]
                      msgs == th'[w].messages
                  IN \A i \in 1..Len(l) :
                         (/\ FailedAt(l, th, i)
                          /\ l[i].mid < th[w].mid
                          /\ Len(l) - i < N) =>
                             LET k == Len(msgs) - (Len(l) - i)
                             IN /\ k >= 2
                                /\ msgs[k] = Turn("user", l[i].content)
                                /\ k < Len(msgs) =>
                                       msgs[k + 1].role # "assistant"]_vars

====
